---- MODULE Spec2Model ----
(***************************************************************************)
(* goup: toolchain provisioning, resource catalog refresh and the merge of *)
(* vendored module dependencies into one GOPATH workspace.                 *)
(*                                                                         *)
(* The file system is one function from paths (sequences of names) to      *)
(* contents ("dir", or the tag of a regular file).  Every operation of the *)
(* program is an action at the program position pc.                        *)
(***************************************************************************)
EXTENDS Naturals, Sequences, FiniteSets, TLC

VARIABLES
    fs,           \* the file system: path -> "dir" | file tag
    pc,           \* position of the running process
    run,          \* number of the current process run
    err,          \* the error a function returned ("nil" when none)
    archive,      \* input: what each resource URL unpacks to (entry sequence)
    modules,      \* input: config.Build.Gomobile.Modules with their sources
    config,       \* input: parsed goup.yaml (nil-ness of the sections) and args
    snap,         \* ~/.goup/resources.xml: [exists, content, mtime]
    now,          \* wall clock, in hours
    fetches,      \* http.Get calls of this run
    body,         \* the response body in flight
    catalog,      \* g.resources: [loaded, names]
    resList,      \* prepareGomobileToolchain: resources to provision
    ri,           \* index into resList
    k,            \* entries the unpacker has written so far
    downloaded,   \* resources downloadAndUnpack was called for in this run
    env,          \* g.env
    cwd,          \* g.cwd
    cmds,         \* external commands run by this process, in order
    stages,       \* stages of Build entered by this process, in order
    dependencies, \* copyModulesToWorkspace: name -> VendoredModule
    mi,           \* index into modules
    resolved,     \* resolvedLocalModulePaths
    todo,         \* map entries the promote loop has not visited yet
    lastTree,     \* the tree below src the last successful assembly left
    present0,     \* the toolchain directories on disk when this process started
    staged0,      \* the staging directories on disk when this process started
    snap0         \* the snapshot file when this process started

inVars   == <<archive, modules, config>>
catVars  == <<snap, now, fetches, body, catalog>>
tcVars   == <<resList, ri, k, downloaded>>
procVars == <<env, cwd, cmds, stages>>
wsVars   == <<dependencies, mi, resolved, todo>>
histVars == <<lastTree, present0, staged0, snap0>>
vars     == <<fs, pc, run, err, inVars, catVars, tcVars, procVars, wsVars, histVars>>

----------------------------------------------------------------------------
(* Bounds of the model *)

MaxRuns == 2        \* process runs in a row over the same disk
MaxVersion == 2     \* dependency versions are 1..MaxVersion
MaxClock == 26      \* the clock stops ticking here

----------------------------------------------------------------------------
(* Paths (type Path) *)

Child(p, name) == Append(p, name)

Add(p, q) == p \o q

Parent(p) == IF Len(p) = 0 THEN p ELSE SubSeq(p, 1, Len(p) - 1)

IsPrefix(p, q) == Len(p) <= Len(q) /\ SubSeq(q, 1, Len(p)) = p

Prefixes(p) == {SubSeq(p, 1, n) : n \in 1..Len(p)}

\* relative specifiers are resolved against the base directory
Resolve(p, base) == base \o p

HomeDir == <<"home">>

BaseDir == <<"base">>

ProjectName == "proj"

buildDir == Child(HomeDir, ProjectName)

goPath == Child(buildDir, "go")

Toolchains == Child(HomeDir, "toolchains")

----------------------------------------------------------------------------
(* The file system calls the program makes *)

Exists(f, p) == p = <<>> \/ p \in DOMAIN f

IsDir(f, p) == p = <<>> \/ (p \in DOMAIN f /\ f[p] = "dir")

\* os.RemoveAll: the path and everything below it; no error if absent
RemoveAll(f, p) == [q \in {q \in DOMAIN f : ~IsPrefix(p, q)} |-> f[q]]

\* os.MkdirAll fails when a component exists and is not a directory
MkdirAllOk(f, p) == \A q \in Prefixes(p) : q \in DOMAIN f => f[q] = "dir"

MkdirAll(f, p) ==
    [q \in DOMAIN f \cup Prefixes(p) |-> IF q \in DOMAIN f THEN f[q] ELSE "dir"]

\* ioutil.ReadDir: the entries directly below p
ReadDir(f, p) == {q \in DOMAIN f : Len(q) = Len(p) + 1 /\ IsPrefix(p, q)}

\* os.Rename (rename(2)): the source exists, the target's parent is a
\* directory, the target is not inside the source, and an existing target
\* is an empty directory replaced by a directory (or a file by a file)
RenameOk(f, old, new) ==
    /\ old \in DOMAIN f
    /\ IsDir(f, Parent(new))
    /\ ~IsPrefix(old, new)
    /\ new \in DOMAIN f =>
          /\ (f[new] = "dir") = (f[old] = "dir")
          /\ ReadDir(f, new) = {}

Rename(f, old, new) ==
    LET moved == {q \in DOMAIN f : IsPrefix(old, q)}
        kept  == (DOMAIN f \ moved) \ {new}
        dest(q) == new \o SubSeq(q, Len(old) + 1, Len(q))
    IN  [q \in kept \cup {dest(m) : m \in moved} |->
            IF q \in kept THEN f[q]
            ELSE f[CHOOSE m \in moved : dest(m) = q]]

\* the tree below p, with paths relative to p
Tree(f, p) ==
    LET below == {q \in DOMAIN f : IsPrefix(p, q) /\ q # p}
    IN  [r \in {SubSeq(q, Len(p) + 1, Len(q)) : q \in below} |-> f[p \o r]]

\* write the tree t below p (p itself exists)
Graft(f, p, t) ==
    [q \in DOMAIN f \cup {p \o r : r \in DOMAIN t} |->
        IF \E r \in DOMAIN t : p \o r = q
        THEN t[CHOOSE r \in DOMAIN t : p \o r = q]
        ELSE f[q]]

EmptyTree == [r \in {} |-> "dir"]

\* a disk of directories only
Dirs(paths) == [q \in UNION {Prefixes(p) : p \in paths} |-> "dir"]

\* regular files with content c written at the paths
Files(f, paths, c) == [q \in DOMAIN f \cup paths |-> IF q \in paths THEN c ELSE f[q]]

----------------------------------------------------------------------------
(* Resources and their archives *)

ResourceNames == {"go", "ndk", "sdk"}

\* the versions used when the toolchain section leaves them empty
DefaultVersion(name) ==
    CASE name = "go" -> "1.12.4"
      [] name = "ndk" -> "r19c"
      [] name = "sdk" -> "433796"

Resource(name) == [Name |-> name, Version |-> DefaultVersion(name)]

targetFolder(res) == Child(Toolchains, res.Name \o "-" \o res.Version)

\* the staging directory without its suffix: the target itself
tmpTargetFolder_NoSuffix(res) == targetFolder(res)

tmpTargetFolder(res) == Child(Toolchains, res.Name \o "-" \o res.Version \o ".tmp")

Entry(p, c) == [path |-> p, content |-> c]

\* what an archive may unpack to, in the order the unpacker writes it;
\* the files of a resource carry its name
ArchiveShapes(name) ==
    { <<>>,
      << Entry(<<"root">>, "dir") >>,
      << Entry(<<"root">>, "dir"), Entry(<<"root", "bin">>, name) >>,
      << Entry(<<"README">>, name) >>,
      << Entry(<<"bin">>, "dir"), Entry(<<"bin", "tool">>, name),
         Entry(<<"README">>, name) >> }

\* the tree the first n entries of an archive make
ArchiveTree(a, n) ==
    [r \in {a[i].path : i \in 1..n} |->
        (a[CHOOSE i \in 1..n : a[i].path = r]).content]

----------------------------------------------------------------------------
(* Process state: environment, working directory, external commands *)

NoPath == <<>>

\* the environment the program is launched with
InitialEnv ==
    [GOROOT |-> NoPath, GOPATH |-> NoPath, PATH |-> << <<"usr", "bin">> >>,
     GO111MODULE |-> "unset", ANDROID_NDK_HOME |-> NoPath, NDK_PATH |-> NoPath,
     ANDROID_HOME |-> NoPath]

\* the variable is left as it was
setEnv_Keeps(e, key, val) == e

\* lines 79-82
setEnv(e, key, val) == [e EXCEPT ![key] = val]

\* Run: the command, with the working directory and environment it sees,
\* in the stage of Build that runs it
Run(log, e, dir, name, ok) ==
    Append(log, [name |-> name, cwd |-> dir, GO111MODULE |-> e.GO111MODULE,
                 ok |-> ok, stage |-> Len(stages)])

hasTarget(target) == \E s \in config.Targets : s = target \/ s = "all"

\* "a || b && c" is a || (b && c): true whenever the gomobile section is
\* there.  (With the section nil the right operand dereferences nil.)
hasAndroidBuild ==
    config.Gomobile \/ (config.Android /\ hasTarget("gomobile/android"))

hasIosBuild ==
    config.Gomobile \/ (config.Ios /\ hasTarget("gomobile/ios"))

----------------------------------------------------------------------------
(* prepareGomobileToolchain *)

Ret(stage, e) == pc' = stage /\ err' = e

\* lines 117-151: the versions, the catalog lookups, the resource list
TcEnter ==
    /\ pc = "tc_enter"
    /\ IF ~config.Gomobile
       THEN /\ pc' = "panic"
            /\ UNCHANGED <<err, resList, ri>>
       ELSE IF \E n \in ResourceNames : n \notin catalog.names
       THEN /\ Ret("tc_ret", "cannot prepare android build")
            /\ UNCHANGED <<resList, ri>>
       ELSE /\ resList' = << Resource("go") >>
                         \o (IF hasAndroidBuild THEN << Resource("ndk") >> ELSE <<>>)
                         \o (IF hasAndroidBuild THEN << Resource("sdk") >> ELSE <<>>)
            /\ ri' = 1
            /\ pc' = "tc_loop"
            /\ UNCHANGED err
    /\ UNCHANGED <<fs, run, inVars, catVars, k, downloaded, procVars, wsVars, histVars>>

\* the presence check left out
Cached_Never(f, res) == FALSE

\* every resource is taken for present
Cached_Always(f, res) == TRUE

\* line 155: the presence check
Cached(f, res) == Exists(f, targetFolder(res))

\* the staging dir is made over whatever is there
DiscardStale_Keep(f, res) == f

\* line 161: a staging dir left by an earlier run is removed
DiscardStale(f, res) == RemoveAll(f, tmpTargetFolder(res))

\* lines 153-161: loop head, presence check, removal of a stale staging dir
TcCheck ==
    /\ pc = "tc_loop"
    /\ IF ri > Len(resList)
       THEN pc' = "tc_env" /\ UNCHANGED <<fs, ri>>
       ELSE IF Cached(fs, resList[ri])
       THEN ri' = ri + 1 /\ UNCHANGED <<fs, pc>>
       ELSE /\ fs' = DiscardStale(fs, resList[ri])
            /\ pc' = "tc_mkdir"
            /\ UNCHANGED ri
    /\ UNCHANGED <<run, err, inVars, catVars, resList, k, downloaded, procVars, wsVars, histVars>>

\* line 162: must(os.MkdirAll(tmpTargetFolder))
TcMkdir ==
    /\ pc = "tc_mkdir"
    /\ IF MkdirAllOk(fs, tmpTargetFolder(resList[ri]))
       THEN /\ fs' = MkdirAll(fs, tmpTargetFolder(resList[ri]))
            /\ pc' = "tc_download"
       ELSE pc' = "panic" /\ UNCHANGED fs
    /\ UNCHANGED <<run, err, inVars, catVars, tcVars, procVars, wsVars, histVars>>

\* line 164: downloadAndUnpack is called; the fetch may fail
TcDownload ==
    /\ pc = "tc_download"
    /\ downloaded' = Append(downloaded, resList[ri].Name)
    /\ \E ok \in BOOLEAN :
          IF ok THEN pc' = "tc_unpack" /\ k' = 0 /\ UNCHANGED err
          ELSE Ret("tc_ret", "failed to provide resource") /\ UNCHANGED k
    /\ UNCHANGED <<fs, run, inVars, catVars, resList, ri, procVars, wsVars, histVars>>

\* downloadAndUnpack writes the next entry of the archive into the staging dir
TcUnpackEntry ==
    /\ pc = "tc_unpack"
    /\ k < Len(archive[resList[ri].Name])
    /\ LET e == archive[resList[ri].Name][k + 1]
       IN  fs' = Graft(fs, tmpTargetFolder(resList[ri]),
                       [r \in {e.path} |-> e.content])
    /\ k' = k + 1
    /\ UNCHANGED <<pc, run, err, inVars, catVars, resList, ri, downloaded, procVars, wsVars, histVars>>

\* lines 164-167: downloadAndUnpack fails part way
TcUnpackFail ==
    /\ pc = "tc_unpack"
    /\ Ret("tc_ret", "failed to provide resource")
    /\ UNCHANGED <<fs, run, inVars, catVars, tcVars, procVars, wsVars, histVars>>

\* the staging dir is renamed whatever it holds
PromoteSource_NoUnwrap(f, tmp) == tmp

\* lines 178-185: what is renamed to the target: the single top-level
\* directory of the staging dir, else the staging dir itself
PromoteSource(f, tmp) ==
    LET files == ReadDir(f, tmp)
    IN  IF Cardinality(files) = 1 /\ \A e \in files : f[e] = "dir"
        THEN CHOOSE e \in files : TRUE
        ELSE tmp

\* an empty listing is taken for an archive
EmptyExtraction_Never(files) == FALSE

\* line 173: the listing of the staging dir has no entry
EmptyExtraction(files) == files = {}

\* lines 169-189: list the staging dir, unwrap a single root, rename
TcPromote ==
    /\ pc = "tc_unpack"
    /\ k = Len(archive[resList[ri].Name])
    /\ \E readOk \in BOOLEAN, renameOk \in BOOLEAN :
          LET res    == resList[ri]
              tmp    == tmpTargetFolder(res)
              files  == ReadDir(fs, tmp)
              from   == PromoteSource(fs, tmp)
          IN  IF ~readOk
              THEN Ret("tc_ret", "readdir") /\ UNCHANGED fs
              ELSE IF EmptyExtraction(files)
              THEN Ret("tc_ret", "no files in resource: " \o res.Name) /\ UNCHANGED fs
              ELSE IF renameOk /\ RenameOk(fs, from, targetFolder(res))
              THEN /\ fs' = Rename(fs, from, targetFolder(res))
                   /\ pc' = "tc_cleanup"
                   /\ UNCHANGED err
              ELSE Ret("tc_ret", "rename") /\ UNCHANGED fs
    /\ UNCHANGED <<run, inVars, catVars, tcVars, procVars, wsVars, histVars>>

\* what is left of the staging dir stays
CleanupStaging_Skip(f, res) == f

\* line 191: what the rename left of the staging dir is removed
CleanupStaging(f, res) == RemoveAll(f, tmpTargetFolder(res))

\* line 191: remove what is left of the staging dir, next resource
TcCleanup ==
    /\ pc = "tc_cleanup"
    /\ fs' = CleanupStaging(fs, resList[ri])
    /\ ri' = ri + 1
    /\ pc' = "tc_loop"
    /\ UNCHANGED <<run, err, inVars, catVars, resList, k, downloaded, procVars, wsVars, histVars>>

\* lines 195-211: the environment of the following stages
TcEnv ==
    /\ pc = "tc_env"
    /\ LET goRoot == targetFolder(Resource("go"))
           e1 == setEnv(env, "GOROOT", goRoot)
           e2 == setEnv(e1, "GOPATH", goPath)
           e3 == setEnv(e2, "PATH",
                        << Child(goRoot, "bin"), Child(goPath, "bin") >> \o env.PATH)
           e4 == setEnv(e3, "ANDROID_NDK_HOME", targetFolder(Resource("ndk")))
           e5 == setEnv(e4, "NDK_PATH", e4.ANDROID_NDK_HOME)
           e6 == setEnv(e5, "ANDROID_HOME", targetFolder(Resource("sdk")))
       IN  IF ~MkdirAllOk(fs, goPath)
           THEN /\ env' = e3
                /\ Ret("tc_ret", "mkdir")
                /\ UNCHANGED <<fs, cmds>>
           ELSE /\ fs' = MkdirAll(fs, goPath)
                /\ \E ok \in BOOLEAN : cmds' = Run(cmds, e3, cwd, "which go", ok)
                /\ env' = e6
                /\ Ret("tc_ret", "nil")
    /\ UNCHANGED <<run, inVars, catVars, tcVars, cwd, stages, wsVars, histVars>>

\* the process is killed between two steps of the provisioning
Interrupt ==
    /\ pc \in {"tc_loop", "tc_mkdir", "tc_download", "tc_unpack", "tc_cleanup", "tc_env"}
    /\ pc' = "killed"
    /\ UNCHANGED <<fs, run, err, inVars, catVars, tcVars, procVars, wsVars, histVars>>

----------------------------------------------------------------------------
(* Modules, their sources and what "go mod vendor" finds *)

\* a relative specifier (a directory below the base directory) and a remote one
ModuleSpecifiers == { <<"a">>, <<"pkg", "m">> }

\* the module line of the go.mod a specifier leads to
ModuleNameOf(tag) ==
    CASE tag = "a" -> <<"app", "a">>
      [] tag = "m" -> <<"pkg", "m">>

GoModTag(spec) == IF spec = <<"a">> THEN "a" ELSE "m"

IsLocalSpecifier(spec) == spec = <<"a">>

\* the source tree of a module: its go.mod and one source file
ModuleSource(spec) ==
    [r \in { <<"go.mod">>, <<"main.go">> } |->
        IF r = <<"go.mod">> THEN GoModTag(spec) ELSE "src"]

DepNames == { <<"pkg", "x">>, <<"pkg", "y">>, <<"lib", "z">> }

Versions == 1..MaxVersion

VersionTag(v) == "v" \o ToString(v)

\* the manifests "go mod vendor" may write: each dependency at most once,
\* in a fixed order
DepOrder == << <<"pkg", "x">>, <<"pkg", "y">>, <<"lib", "z">> >>

RECURSIVE ManifestSeq(_, _)
ManifestSeq(pick, i) ==
    IF i > Len(DepOrder) THEN <<>>
    ELSE (IF pick[DepOrder[i]] = 0 THEN <<>>
          ELSE << [ModuleName |-> DepOrder[i], Version |-> pick[DepOrder[i]]] >>)
         \o ManifestSeq(pick, i + 1)

\* pkg/x and pkg/y come in every version, lib/z in its first only
Manifests ==
    {ManifestSeq(pick, 1) :
        pick \in {q \in [DepNames -> 0..MaxVersion] : q[<<"lib", "z">>] <= 1}}

\* a configured module: its specifier and what vendoring it finds
ModuleInputs == [spec : ModuleSpecifiers, deps : Manifests]

\* the module lists of a configuration: distinct specifiers, in any order
ModuleLists ==
    { << m >> : m \in ModuleInputs }
    \cup
    { l \in { << m1, m2 >> : m1 \in ModuleInputs, m2 \in ModuleInputs } :
        l[1].spec # l[2].spec }

\* the manifest of the module whose go.mod carries this tag
ManifestOf(tag) ==
    LET i == CHOOSE i \in 1..Len(modules) : GoModTag(modules[i].spec) = tag
    IN  modules[i].deps

srcRoot == Child(goPath, "src")

\* getModuleName: the module line of a go.mod; "" when there is no go.mod
getModuleName(f, gomod) ==
    IF gomod \in DOMAIN f /\ f[gomod] # "dir" THEN f[gomod] ELSE ""

\* CopyDir: the tree below from, written below to
CopyDir(f, from, to) == Graft(MkdirAll(f, to), to, Tree(f, from))

\* what "go get <module>" leaves in the module cache of the GOPATH
GoGet(f, spec) ==
    LET dir == Add(Child(Child(goPath, "pkg"), "mod"), spec)
    IN  Graft(MkdirAll(f, dir), dir, ModuleSource(spec))

\* what "go mod vendor" leaves in the module directory: vendor/modules.txt
\* and one tree per dependency, at the version the module resolves to
VendorTree(tag) ==
    LET deps == ManifestOf(tag)
        paths == { <<"modules.txt">> }
                 \cup UNION { Prefixes(deps[i].ModuleName) : i \in 1..Len(deps) }
                 \cup { Child(deps[i].ModuleName, "lib.go") : i \in 1..Len(deps) }
    IN  [r \in paths |->
            IF r = <<"modules.txt">> THEN tag
            ELSE IF \E i \in 1..Len(deps) : r = Child(deps[i].ModuleName, "lib.go")
            THEN VersionTag(deps[CHOOSE i \in 1..Len(deps) :
                                    r = Child(deps[i].ModuleName, "lib.go")].Version)
            ELSE "dir"]

GoModVendor(f, dir, tag) ==
    LET vendor == Child(dir, "vendor")
    IN  Graft(MkdirAll(RemoveAll(f, vendor), vendor), vendor, VendorTree(tag))

\* ParseModulesTxT: the records of vendor/modules.txt, each with the
\* directory of the vendored copy
ParseModulesTxT(f, file) ==
    LET deps == ManifestOf(f[file])
    IN  [i \in 1..Len(deps) |->
            [ModuleName |-> deps[i].ModuleName, Version |-> deps[i].Version,
             Local |-> Add(Parent(file), deps[i].ModuleName)]]

\* Version.IsNewer
IsNewer(a, b) == a > b

\* the record seen last replaces the entry, whatever its version
MergeRecord_LastWins(deps, mod) ==
    [n \in DOMAIN deps \cup {mod.ModuleName} |->
        IF n = mod.ModuleName THEN mod ELSE deps[n]]

\* a record of the same version replaces the entry too
MergeRecord_TieReplaces(deps, mod) ==
    IF mod.ModuleName \notin DOMAIN deps
       \/ ~IsNewer(deps[mod.ModuleName].Version, mod.Version)
    THEN [n \in DOMAIN deps \cup {mod.ModuleName} |->
            IF n = mod.ModuleName THEN mod ELSE deps[n]]
    ELSE deps

\* lines 351-358: one record against the map
MergeRecord(deps, mod) ==
    IF mod.ModuleName \notin DOMAIN deps
       \/ IsNewer(mod.Version, deps[mod.ModuleName].Version)
    THEN [n \in DOMAIN deps \cup {mod.ModuleName} |->
            IF n = mod.ModuleName THEN mod ELSE deps[n]]
    ELSE deps

\* lines 349-359: the records of one module, in manifest order
RECURSIVE MergeModule(_, _)
MergeModule(deps, mods) ==
    IF mods = <<>> THEN deps
    ELSE MergeModule(MergeRecord(deps, Head(mods)), Tail(mods))

NoDependencies == [n \in {} |-> 0]

----------------------------------------------------------------------------
(* copyModulesToWorkspace *)

\* lines 297-300
CmwEnter ==
    /\ pc = "cmw_enter"
    /\ dependencies' = NoDependencies
    /\ cwd' = goPath
    /\ env' = setEnv(env, "GO111MODULE", "on")
    /\ resolved' = <<>>
    /\ mi' = 1
    /\ pc' = "cmw_module"
    /\ UNCHANGED <<fs, run, err, inVars, catVars, tcVars, cmds, stages, todo, histVars>>

\* lines 301-360: one module of the configuration: resolve, stage, vendor,
\* parse the manifest and merge its records
CmwModule ==
    /\ pc = "cmw_module"
    /\ mi <= Len(modules)
    /\ LET modPath == modules[mi].spec
           remote  == ~Exists(fs, Resolve(modPath, BaseDir))
           resolvedPath ==
               IF remote THEN Add(Child(Child(goPath, "pkg"), "mod"), modPath)
               ELSE Resolve(modPath, BaseDir)
       IN  \E getOk \in (IF remote THEN BOOLEAN ELSE {TRUE}), vendorOk \in BOOLEAN :
           LET cmds1 == IF remote THEN Run(cmds, env, cwd, "go get", getOk) ELSE cmds
               fs1   == IF remote THEN GoGet(fs, modPath) ELSE fs
               modName == getModuleName(fs1, Child(resolvedPath, "go.mod"))
               targetDir == Add(srcRoot, ModuleNameOf(modName))
               fs2   == CopyDir(RemoveAll(fs1, targetDir), resolvedPath, targetDir)
               cmds2 == Run(cmds1, env, targetDir, "go mod vendor", vendorOk)
               fs3   == GoModVendor(fs2, targetDir, modName)
               mods  == ParseModulesTxT(fs3, Child(Child(targetDir, "vendor"), "modules.txt"))
           IN  IF ~getOk
               THEN /\ cmds' = cmds1
                    /\ Ret("cmw_ret", "go get")
                    /\ UNCHANGED <<fs, cwd, dependencies, resolved, mi>>
               ELSE IF modName = ""
               THEN /\ fs' = fs1
                    /\ cmds' = cmds1
                    /\ resolved' = Append(resolved, resolvedPath)
                    /\ Ret("cmw_ret", "not a go module")
                    /\ UNCHANGED <<cwd, dependencies, mi>>
               ELSE IF ~vendorOk
               THEN /\ fs' = fs2
                    /\ cwd' = targetDir
                    /\ cmds' = cmds2
                    /\ resolved' = Append(resolved, resolvedPath)
                    /\ Ret("cmw_ret", "failed to vendor module dependencies")
                    /\ UNCHANGED <<dependencies, mi>>
               ELSE /\ fs' = fs3
                    /\ cwd' = targetDir
                    /\ cmds' = cmds2
                    /\ resolved' = Append(resolved, resolvedPath)
                    /\ dependencies' = MergeModule(dependencies, mods)
                    /\ mi' = mi + 1
                    /\ UNCHANGED <<pc, err>>
    /\ UNCHANGED <<run, inVars, catVars, tcVars, env, stages, todo, histVars>>

\* line 363: the range over the map starts; its order is not specified
CmwRange ==
    /\ pc = "cmw_module"
    /\ mi > Len(modules)
    /\ todo' = DOMAIN dependencies
    /\ pc' = "cmw_promote"
    /\ UNCHANGED <<fs, run, err, inVars, catVars, tcVars, procVars, dependencies, mi, resolved, histVars>>

\* the directory line 365 removes before a dependency is moved in
PromoteClears(targetDir) == Parent(targetDir)

\* lines 363-378: one entry of the map is moved to src/<name>
CmwPromote ==
    /\ pc = "cmw_promote"
    /\ \E n \in todo :
          LET dep == dependencies[n]
              targetDir == Add(srcRoot, dep.ModuleName)
              fs1 == RemoveAll(fs, PromoteClears(targetDir))
          IN  IF ~MkdirAllOk(fs1, Parent(targetDir))
              THEN /\ fs' = fs1
                   /\ Ret("cmw_ret", "failed to create module target directory")
                   /\ UNCHANGED todo
              ELSE IF ~RenameOk(MkdirAll(fs1, Parent(targetDir)), dep.Local, targetDir)
              THEN /\ fs' = MkdirAll(fs1, Parent(targetDir))
                   /\ Ret("cmw_ret", "failed to move")
                   /\ UNCHANGED todo
              ELSE /\ fs' = Rename(MkdirAll(fs1, Parent(targetDir)), dep.Local, targetDir)
                   /\ todo' = todo \ {n}
                   /\ UNCHANGED <<pc, err>>
    /\ UNCHANGED <<run, inVars, catVars, tcVars, procVars, dependencies, mi, resolved, histVars>>

\* line 381: the promote loop is over, the cleanup loop starts
CmwPromoted ==
    /\ pc = "cmw_promote"
    /\ todo = {}
    /\ mi' = 1
    /\ pc' = "cmw_cleanup"
    /\ UNCHANGED <<fs, run, err, inVars, catVars, tcVars, procVars, dependencies, resolved, todo, histVars>>

\* the module name left out of the path
CleanupTarget_NoModule(modName) == Child(srcRoot, "vendor")

\* the directory line 386 names for a staged module
CleanupTarget(modName) == Child(Add(srcRoot, ModuleNameOf(modName)), "vendor")

\* lines 381-394: the vendor directory of one staged module is removed
CmwCleanup ==
    /\ pc = "cmw_cleanup"
    /\ mi <= Len(resolved)
    /\ LET modName == getModuleName(fs, Child(resolved[mi], "go.mod"))
       IN  IF modName = ""
           THEN pc' = "panic" /\ UNCHANGED <<fs, mi>>
           ELSE /\ fs' = RemoveAll(fs, CleanupTarget(modName))
                /\ mi' = mi + 1
                /\ UNCHANGED pc
    /\ UNCHANGED <<run, err, inVars, catVars, tcVars, procVars, dependencies, resolved, todo, histVars>>

\* line 395
CmwReturn ==
    /\ pc = "cmw_cleanup"
    /\ mi > Len(resolved)
    /\ Ret("cmw_ret", "nil")
    /\ UNCHANGED <<fs, run, inVars, catVars, tcVars, procVars, wsVars, histVars>>

----------------------------------------------------------------------------
(* NewGoup and loadResources *)

\* hours a snapshot stays fresh
MaxAgeHours == 24

NoSnapshot == [exists |-> FALSE, content |-> "", mtime |-> 0]

\* what the catalog URL may serve: two catalogs, or something that is none
Served == {"catalogA", "catalogB", "garbage"}

\* Resources.Load: the names a snapshot lists; a malformed one does not parse
Parses(content) == content \in {"catalogA", "catalogB"}

EntriesOf(content) == IF content = "catalogA" THEN ResourceNames ELSE {"go", "ndk"}

\* the refresh condition without the stat error: only the age counts
Stale_AgeOnly(sn, t) == sn.exists /\ t - sn.mtime > MaxAgeHours

\* the refresh condition with the comparison turned around
Stale_Younger(sn, t) == ~sn.exists \/ t - sn.mtime <= MaxAgeHours

\* line 88: the stat fails, or the file is older than 24 hours
Stale(sn, t) == ~sn.exists \/ t - sn.mtime > MaxAgeHours

\* lines 36-60: the workspace is cleared on request, the directories are made
NgStart ==
    /\ pc = "ng_start"
    /\ LET fs1 == IF config.ClearWorkspace THEN RemoveAll(fs, buildDir) ELSE fs
       IN  IF MkdirAllOk(fs1, BaseDir) /\ MkdirAllOk(fs1, HomeDir)
              /\ MkdirAllOk(fs1, buildDir)
           THEN /\ fs' = MkdirAll(MkdirAll(MkdirAll(fs1, BaseDir), HomeDir), buildDir)
                /\ pc' = "lr_stat"
           ELSE /\ fs' = fs1
                /\ pc' = "panic"
    /\ UNCHANGED <<run, err, inVars, catVars, tcVars, procVars, wsVars, histVars>>

\* lines 86-90: stat the snapshot; a missing or stale one is removed
LrStat ==
    /\ pc = "lr_stat"
    /\ IF Stale(snap, now)
       THEN snap' = NoSnapshot /\ pc' = "lr_get"
       ELSE UNCHANGED snap /\ pc' = "lr_load"
    /\ UNCHANGED <<fs, run, err, inVars, now, fetches, body, catalog, tcVars, procVars,
                   wsVars, histVars>>

\* lines 91-94: http.Get
LrGet ==
    /\ pc = "lr_get"
    /\ fetches' = fetches + 1
    /\ \/ Ret("lr_ret", "failed to get resource list") /\ UNCHANGED body
       \/ \E c \in Served : body' = c /\ pc' = "lr_read" /\ UNCHANGED err
    /\ UNCHANGED <<fs, run, inVars, snap, now, catalog, tcVars, procVars, wsVars, histVars>>

\* lines 96-99: ioutil.ReadAll
LrRead ==
    /\ pc = "lr_read"
    /\ \E ok \in BOOLEAN :
          IF ok THEN pc' = "lr_write" /\ UNCHANGED err
          ELSE Ret("lr_ret", "failed to download resource list")
    /\ UNCHANGED <<fs, run, inVars, catVars, tcVars, procVars, wsVars, histVars>>

\* lines 100-103: ioutil.WriteFile; a failed write may leave a truncated file
LrWrite ==
    /\ pc = "lr_write"
    /\ \/ /\ snap' = [exists |-> TRUE, content |-> body, mtime |-> now]
          /\ pc' = "lr_load"
          /\ UNCHANGED err
       \/ /\ \E created \in BOOLEAN :
                snap' = IF created
                        THEN [exists |-> TRUE, content |-> "", mtime |-> now]
                        ELSE snap
          /\ Ret("lr_ret", "failed to save resource list")
    /\ UNCHANGED <<fs, run, inVars, now, fetches, body, catalog, tcVars, procVars,
                   wsVars, histVars>>

\* lines 106-112: parse the snapshot
LrLoad ==
    /\ pc = "lr_load"
    /\ IF Parses(snap.content)
       THEN /\ catalog' = [loaded |-> TRUE, names |-> EntriesOf(snap.content)]
            /\ Ret("lr_ret", "nil")
       ELSE /\ Ret("lr_ret", "failed to load resources")
            /\ UNCHANGED catalog
    /\ UNCHANGED <<fs, run, inVars, snap, now, fetches, body, tcVars, procVars, wsVars,
                   histVars>>

\* lines 62-75: NewGoup returns the error, or the builder with the launch
\* environment
NgReturn ==
    /\ pc = "lr_ret"
    /\ IF err # "nil"
       THEN pc' = "exit" /\ UNCHANGED env
       ELSE pc' = "build_enter" /\ env' = InitialEnv
    /\ UNCHANGED <<fs, run, err, inVars, catVars, tcVars, cwd, cmds, stages, wsVars, histVars>>

----------------------------------------------------------------------------
(* prepareGomobile *)

gomobileBin == Child(Child(goPath, "bin"), "gomobile")

\* lines 265-291: install gomobile unless its binary is in the GOPATH; the
\* first command that fails ends the stage
PrepareGomobile ==
    /\ pc = "pg_enter"
    /\ IF Exists(fs, gomobileBin)
       THEN /\ Ret("pg_ret", "nil")
            /\ UNCHANGED <<fs, env, cwd, cmds>>
       ELSE /\ cwd' = goPath
            /\ env' = setEnv(env, "GO111MODULE", "off")
            /\ \E failAt \in 0..3 :
                  LET e  == setEnv(env, "GO111MODULE", "off")
                      c1 == Run(cmds, e, goPath, "go get gomobile", failAt # 1)
                      c2 == Run(c1, e, goPath, "gomobile version", failAt # 2)
                      c3 == Run(c2, e, goPath, "gomobile init", failAt # 3)
                      installed == Files(MkdirAll(fs, Child(goPath, "bin")),
                                         {gomobileBin}, "bin")
                  IN  CASE failAt = 1 ->
                             /\ cmds' = c1 /\ UNCHANGED fs
                             /\ Ret("pg_ret", "failed to install gomobile")
                        [] failAt = 2 ->
                             /\ cmds' = c2 /\ fs' = installed
                             /\ Ret("pg_ret", "failed to invoke gomobile")
                        [] failAt = 3 ->
                             /\ cmds' = c3 /\ fs' = installed
                             /\ Ret("pg_ret", "failed to init gomobile")
                        [] failAt = 0 ->
                             /\ cmds' = c3 /\ fs' = installed
                             /\ Ret("pg_ret", "nil")
    /\ UNCHANGED <<run, inVars, catVars, tcVars, stages, wsVars, histVars>>

----------------------------------------------------------------------------
(* compileGomobile *)

\* lines 418-463: gomobile bind for android, then for ios; reading a section
\* that is nil panics
CompileGomobile ==
    /\ pc = "cg_enter"
    /\ cwd' = goPath
    /\ env' = setEnv(env, "GO111MODULE", "off")
    /\ \E okA \in BOOLEAN, okI \in BOOLEAN :
          LET e  == setEnv(env, "GO111MODULE", "off")
              cA == IF hasAndroidBuild
                    THEN Run(cmds, e, goPath, "gomobile bind android", okA) ELSE cmds
              cI == Run(cA, e, goPath, "gomobile bind ios", okI)
          IN  IF hasAndroidBuild /\ ~config.Android
              THEN pc' = "panic" /\ UNCHANGED <<cmds, err>>
              ELSE IF hasAndroidBuild /\ ~okA
              THEN cmds' = cA /\ Ret("cg_ret", "bind android")
              ELSE IF ~hasIosBuild
              THEN cmds' = cA /\ Ret("cg_ret", "nil")
              ELSE IF ~config.Ios
              THEN cmds' = cA /\ pc' = "panic" /\ UNCHANGED err
              ELSE IF ~okI
              THEN cmds' = cI /\ Ret("cg_ret", "bind ios")
              ELSE cmds' = cI /\ Ret("cg_ret", "nil")
    /\ UNCHANGED <<fs, run, inVars, catVars, tcVars, stages, wsVars, histVars>>

----------------------------------------------------------------------------
(* Build *)

\* every stage's error is returned at once
Failed_Never(e) == FALSE

\* lines 468, 473, 478, 483: if err != nil
Failed(e) == e # "nil"

\* line 467
BuildToolchain ==
    /\ pc = "build_enter"
    /\ stages' = Append(stages, "toolchain")
    /\ pc' = "tc_enter"
    /\ UNCHANGED <<fs, run, err, inVars, catVars, tcVars, env, cwd, cmds, wsVars, histVars>>

\* lines 468-472
BuildGomobile ==
    /\ pc = "tc_ret"
    /\ IF Failed(err)
       THEN pc' = "exit" /\ UNCHANGED stages
       ELSE pc' = "pg_enter" /\ stages' = Append(stages, "gomobile")
    /\ UNCHANGED <<fs, run, err, inVars, catVars, tcVars, env, cwd, cmds, wsVars, histVars>>

\* lines 473-477
BuildWorkspace ==
    /\ pc = "pg_ret"
    /\ IF Failed(err)
       THEN pc' = "exit" /\ UNCHANGED stages
       ELSE pc' = "cmw_enter" /\ stages' = Append(stages, "workspace")
    /\ UNCHANGED <<fs, run, err, inVars, catVars, tcVars, env, cwd, cmds, wsVars, histVars>>

\* lines 478-482
BuildCompile ==
    /\ pc = "cmw_ret"
    /\ IF Failed(err)
       THEN pc' = "exit" /\ UNCHANGED stages
       ELSE pc' = "cg_enter" /\ stages' = Append(stages, "compile")
    /\ UNCHANGED <<fs, run, err, inVars, catVars, tcVars, env, cwd, cmds, wsVars, histVars>>

\* lines 483-486
BuildReturn ==
    /\ pc = "cg_ret"
    /\ pc' = "exit"
    /\ UNCHANGED <<fs, run, err, inVars, catVars, tcVars, procVars, wsVars, histVars>>

----------------------------------------------------------------------------
(* Disks and process states a stage can start from *)

\* NewGoup has made the base, home and build directories
FreshDisk == Dirs({BaseDir, HomeDir, buildDir})

\* the local modules of a configuration, below the base directory
RECURSIVE WithSources(_, _)
WithSources(f, mods) ==
    IF mods = <<>> THEN f
    ELSE LET dir == Resolve(Head(mods).spec, BaseDir)
             g   == IF IsLocalSpecifier(Head(mods).spec)
                    THEN Graft(MkdirAll(f, dir), dir, ModuleSource(Head(mods).spec))
                    ELSE f
         IN  WithSources(g, Tail(mods))

\* the three toolchains provisioned and gomobile installed by earlier runs
ProvisionedDisk ==
    Files(Dirs({BaseDir, buildDir, Child(goPath, "bin")}
               \cup {targetFolder(Resource(n)) : n \in ResourceNames}),
          {Child(targetFolder(Resource(n)), "README") : n \in ResourceNames}
          \cup {Child(Child(goPath, "bin"), "gomobile")}, "bin")

\* the environment prepareGomobileToolchain leaves
ToolchainEnv ==
    [GOROOT |-> targetFolder(Resource("go")), GOPATH |-> goPath,
     PATH |-> << Child(targetFolder(Resource("go")), "bin"), Child(goPath, "bin"),
                 <<"usr", "bin">> >>,
     GO111MODULE |-> "unset",
     ANDROID_NDK_HOME |-> targetFolder(Resource("ndk")),
     NDK_PATH |-> targetFolder(Resource("ndk")),
     ANDROID_HOME |-> targetFolder(Resource("sdk"))]

DefaultConfig ==
    [Gomobile |-> TRUE, Android |-> TRUE, Ios |-> FALSE, Targets |-> {"gomobile/android"},
     ClearWorkspace |-> FALSE]

FreshSnapshot == [exists |-> TRUE, content |-> "catalogA", mtime |-> 0]

LoadedCatalog == [loaded |-> TRUE, names |-> ResourceNames]

DefaultArchive ==
    [n \in ResourceNames |-> << Entry(<<"root">>, "dir"), Entry(<<"root", "bin">>, n) >>]

----------------------------------------------------------------------------
(* The provisioning on its own: every archive, failures, interruptions,    *)
(* run after run over the same disk                                        *)

Archives == { a \in [ResourceNames -> UNION {ArchiveShapes(n) : n \in ResourceNames}] :
                \A n \in ResourceNames : a[n] \in ArchiveShapes(n) }

DefaultModules == << [spec |-> <<"a">>, deps |-> <<>>] >>

\* the toolchain directories on a disk
Present(f) == { n \in ResourceNames : Exists(f, targetFolder(Resource(n))) }

\* the staging directories on a disk
Staged(f) == { n \in ResourceNames : Exists(f, tmpTargetFolder(Resource(n))) }

\* what an interrupted run of some earlier time may have left in the
\* staging directory of go: files of another archive
Leftovers ==
    { [r \in {<<"stale">>} |-> "junk"],
      [r \in {<<"root">>, <<"root", "old">>} |->
          IF r = <<"root">> THEN "dir" ELSE "junk"] }

\* a disk no run has touched, or one with a staging directory left over
StartDisks ==
    LET f == WithSources(FreshDisk, DefaultModules)
        tmp == tmpTargetFolder(Resource("go"))
    IN  {f} \cup { Graft(MkdirAll(f, tmp), tmp, t) : t \in Leftovers }

InitToolchain ==
    /\ archive \in Archives
    /\ modules = DefaultModules
    /\ fs \in StartDisks
    /\ pc = "tc_enter"
    /\ run = 1
    /\ err = "nil"
    /\ config = DefaultConfig
    /\ snap = FreshSnapshot
    /\ now = 0
    /\ fetches = 0
    /\ body = ""
    /\ catalog = LoadedCatalog
    /\ resList = <<>>
    /\ ri = 1
    /\ k = 0
    /\ downloaded = <<>>
    /\ env = InitialEnv
    /\ cwd = NoPath
    /\ cmds = <<>>
    /\ stages = << "toolchain" >>
    /\ dependencies = NoDependencies
    /\ mi = 1
    /\ resolved = <<>>
    /\ todo = {}
    /\ lastTree = [ok |-> FALSE, tree |-> EmptyTree]
    /\ present0 = {}
    /\ staged0 = Staged(fs)
    /\ snap0 = FreshSnapshot

\* the next process run reaches prepareGomobileToolchain over the disk the
\* last one left (it returned, panicked or was killed), same catalog
ToolchainAgain ==
    /\ pc \in {"tc_ret", "killed", "panic"}
    /\ run < MaxRuns
    /\ run' = run + 1
    /\ pc' = "tc_enter"
    /\ err' = "nil"
    /\ resList' = <<>>
    /\ ri' = 1
    /\ k' = 0
    /\ downloaded' = <<>>
    /\ env' = InitialEnv
    /\ cwd' = NoPath
    /\ cmds' = <<>>
    /\ present0' = Present(fs)
    /\ staged0' = Staged(fs)
    /\ UNCHANGED <<fs, inVars, catVars, stages, wsVars, lastTree, snap0>>

NextToolchain ==
    \/ TcEnter
    \/ TcCheck
    \/ TcMkdir
    \/ TcDownload
    \/ TcUnpackEntry
    \/ TcUnpackFail
    \/ TcPromote
    \/ TcCleanup
    \/ TcEnv
    \/ Interrupt
    \/ ToolchainAgain

SpecToolchain == InitToolchain /\ [][NextToolchain]_vars

----------------------------------------------------------------------------
(* The workspace assembly on its own: every module list, run after run *)

InitWorkspace ==
    /\ modules \in ModuleLists
    /\ fs = WithSources(ProvisionedDisk, modules)
    /\ pc = "cmw_enter"
    /\ run = 1
    /\ err = "nil"
    /\ archive = DefaultArchive
    /\ config = DefaultConfig
    /\ snap = FreshSnapshot
    /\ now = 0
    /\ fetches = 0
    /\ body = ""
    /\ catalog = LoadedCatalog
    /\ resList = << Resource("go"), Resource("ndk"), Resource("sdk") >>
    /\ ri = 4
    /\ k = 0
    /\ downloaded = <<>>
    /\ env = ToolchainEnv
    /\ cwd = NoPath
    /\ cmds = << [name |-> "which go", cwd |-> NoPath, GO111MODULE |-> "unset",
                  ok |-> TRUE, stage |-> 1] >>
    /\ stages = << "toolchain", "gomobile", "workspace" >>
    /\ dependencies = NoDependencies
    /\ mi = 1
    /\ resolved = <<>>
    /\ todo = {}
    /\ lastTree = [ok |-> FALSE, tree |-> EmptyTree]
    /\ present0 = ResourceNames
    /\ staged0 = {}
    /\ snap0 = FreshSnapshot

\* the next process run reaches copyModulesToWorkspace over the disk the
\* last one left, with the same configuration and module sources
WorkspaceAgain ==
    /\ pc = "cmw_ret"
    /\ run < MaxRuns
    /\ run' = run + 1
    /\ pc' = "cmw_enter"
    /\ err' = "nil"
    /\ env' = ToolchainEnv
    /\ cwd' = NoPath
    /\ cmds' = << [name |-> "which go", cwd |-> NoPath, GO111MODULE |-> "unset",
                   ok |-> TRUE, stage |-> 1] >>
    /\ dependencies' = NoDependencies
    /\ mi' = 1
    /\ resolved' = <<>>
    /\ todo' = {}
    /\ lastTree' = IF err = "nil" THEN [ok |-> TRUE, tree |-> Tree(fs, srcRoot)]
                   ELSE [ok |-> FALSE, tree |-> EmptyTree]
    /\ UNCHANGED <<fs, inVars, catVars, tcVars, stages, present0, staged0, snap0>>

NextWorkspace ==
    \/ CmwEnter
    \/ CmwModule
    \/ CmwRange
    \/ CmwPromote
    \/ CmwPromoted
    \/ CmwCleanup
    \/ CmwReturn
    \/ WorkspaceAgain

SpecWorkspace == InitWorkspace /\ [][NextWorkspace]_vars

----------------------------------------------------------------------------
(* NewGoup on its own: the clock ticks between the process runs *)

TickHours == {1, 12}

NotLoaded == [loaded |-> FALSE, names |-> {}]

InitCatalog ==
    /\ snap \in {NoSnapshot, FreshSnapshot}
    /\ now = 0
    /\ modules = DefaultModules
    /\ fs = WithSources(Dirs({BaseDir}), DefaultModules)
    /\ pc = "ng_start"
    /\ run = 1
    /\ err = "nil"
    /\ archive = DefaultArchive
    /\ config = DefaultConfig
    /\ fetches = 0
    /\ body = ""
    /\ catalog = NotLoaded
    /\ resList = <<>>
    /\ ri = 1
    /\ k = 0
    /\ downloaded = <<>>
    /\ env = InitialEnv
    /\ cwd = NoPath
    /\ cmds = <<>>
    /\ stages = <<>>
    /\ dependencies = NoDependencies
    /\ mi = 1
    /\ resolved = <<>>
    /\ todo = {}
    /\ lastTree = [ok |-> FALSE, tree |-> EmptyTree]
    /\ present0 = {}
    /\ staged0 = {}
    /\ snap0 = snap

\* time passes before the program is launched
Tick ==
    /\ pc = "ng_start"
    /\ \E d \in TickHours : now + d <= MaxClock /\ now' = now + d
    /\ UNCHANGED <<fs, pc, run, err, inVars, snap, fetches, body, catalog, tcVars,
                   procVars, wsVars, histVars>>

\* the program is launched again once NewGoup has returned
CatalogAgain ==
    /\ pc \in {"exit", "build_enter", "panic"}
    /\ run < MaxRuns
    /\ run' = run + 1
    /\ pc' = "ng_start"
    /\ err' = "nil"
    /\ fetches' = 0
    /\ body' = ""
    /\ catalog' = NotLoaded
    /\ env' = InitialEnv
    /\ snap0' = snap
    /\ UNCHANGED <<fs, inVars, snap, now, tcVars, cwd, cmds, stages, wsVars, lastTree,
                   present0, staged0>>

NextCatalog ==
    \/ Tick
    \/ NgStart
    \/ LrStat
    \/ LrGet
    \/ LrRead
    \/ LrWrite
    \/ LrLoad
    \/ NgReturn
    \/ CatalogAgain

SpecCatalog == InitCatalog /\ [][NextCatalog]_vars

----------------------------------------------------------------------------
(* The whole program: NewGoup, then Build, run after run *)

Configs ==
    [Gomobile : {TRUE}, Android : BOOLEAN, Ios : BOOLEAN,
     Targets : {{"gomobile/android"}}, ClearWorkspace : BOOLEAN]

\* go comes empty, in a single directory or flat; ndk and sdk in a directory
SomeArchives ==
    { a \in Archives : a["ndk"] = DefaultArchive["ndk"] /\ a["sdk"] = DefaultArchive["sdk"]
                       /\ Len(a["go"]) # 1 }

SomeManifests ==
    { << [ModuleName |-> <<"lib", "z">>, Version |-> 1] >>,
      << [ModuleName |-> <<"pkg", "x">>, Version |-> 1],
         [ModuleName |-> <<"lib", "z">>, Version |-> 1] >> }

SomeModuleLists == { l \in ModuleLists : \A i \in 1..Len(l) : l[i].deps \in SomeManifests }

Init ==
    /\ config \in Configs
    /\ archive \in SomeArchives
    /\ modules \in SomeModuleLists
    /\ \E age \in {0, MaxAgeHours + 1} :
          /\ now = age
          /\ snap \in IF age = 0 THEN {NoSnapshot, FreshSnapshot} ELSE {FreshSnapshot}
    /\ fs = WithSources(Dirs({BaseDir}), modules)
    /\ pc = "ng_start"
    /\ run = 1
    /\ err = "nil"
    /\ fetches = 0
    /\ body = ""
    /\ catalog = NotLoaded
    /\ resList = <<>>
    /\ ri = 1
    /\ k = 0
    /\ downloaded = <<>>
    /\ env = InitialEnv
    /\ cwd = NoPath
    /\ cmds = <<>>
    /\ stages = <<>>
    /\ dependencies = NoDependencies
    /\ mi = 1
    /\ resolved = <<>>
    /\ todo = {}
    /\ lastTree = [ok |-> FALSE, tree |-> EmptyTree]
    /\ present0 = {}
    /\ staged0 = {}
    /\ snap0 = snap

\* the program is launched again over the disk the last run left
Restart ==
    /\ pc \in {"exit", "panic"}
    /\ run < MaxRuns
    /\ run' = run + 1
    /\ pc' = "ng_start"
    /\ err' = "nil"
    /\ fetches' = 0
    /\ body' = ""
    /\ catalog' = NotLoaded
    /\ resList' = <<>>
    /\ ri' = 1
    /\ k' = 0
    /\ downloaded' = <<>>
    /\ env' = InitialEnv
    /\ cwd' = NoPath
    /\ cmds' = <<>>
    /\ stages' = <<>>
    /\ dependencies' = NoDependencies
    /\ mi' = 1
    /\ resolved' = <<>>
    /\ todo' = {}
    /\ lastTree' = IF Len(stages) = 4 THEN [ok |-> TRUE, tree |-> Tree(fs, srcRoot)]
                   ELSE [ok |-> FALSE, tree |-> EmptyTree]
    /\ present0' = Present(fs)
    /\ staged0' = Staged(fs)
    /\ snap0' = snap
    /\ UNCHANGED <<fs, inVars, snap, now>>

Next ==
    \/ NgStart
    \/ LrStat
    \/ LrGet
    \/ LrRead
    \/ LrWrite
    \/ LrLoad
    \/ NgReturn
    \/ BuildToolchain
    \/ TcEnter
    \/ TcCheck
    \/ TcMkdir
    \/ TcDownload
    \/ TcUnpackEntry
    \/ TcUnpackFail
    \/ TcPromote
    \/ TcCleanup
    \/ TcEnv
    \/ BuildGomobile
    \/ PrepareGomobile
    \/ BuildWorkspace
    \/ CmwEnter
    \/ CmwModule
    \/ CmwRange
    \/ CmwPromote
    \/ CmwPromoted
    \/ CmwCleanup
    \/ CmwReturn
    \/ BuildCompile
    \/ CompileGomobile
    \/ BuildReturn
    \/ Restart

Spec == Init /\ [][Next]_vars

----------------------------------------------------------------------------
(* The merge as a fold over a module list *)

\* the root a configured module is staged at, src/<module name>
StagedRoot(m) == Add(srcRoot, ModuleNameOf(GoModTag(m.spec)))

\* the records the manifest of a configured module parses to
RecordsOf(m) ==
    [i \in 1..Len(m.deps) |->
        [ModuleName |-> m.deps[i].ModuleName, Version |-> m.deps[i].Version,
         Local |-> Add(Child(StagedRoot(m), "vendor"), m.deps[i].ModuleName)]]

RECURSIVE FoldModules(_, _)
FoldModules(deps, list) ==
    IF list = <<>> THEN deps
    ELSE FoldModules(MergeModule(deps, RecordsOf(Head(list))), Tail(list))

\* every order of a module list
Orders(list) ==
    { [i \in 1..Len(list) |-> list[o[i]]] :
        o \in { o \in [1..Len(list) -> 1..Len(list)] :
                  \A i, j \in 1..Len(list) : o[i] = o[j] => i = j } }

\* the modules of the configuration that declare n, and the versions declared
Declaring(n, v) ==
    { i \in 1..Len(modules) :
        \E j \in 1..Len(modules[i].deps) :
            modules[i].deps[j].ModuleName = n /\ modules[i].deps[j].Version = v }

Declared(n) == { v \in Versions : Declaring(n, v) # {} }

Greatest(S) == CHOOSE v \in S : \A w \in S : w <= v

\* every module of the configuration has been merged
MergeDone ==
    \/ pc = "cmw_module" /\ mi > Len(modules)
    \/ pc \in {"cmw_promote", "cmw_cleanup"}

AssemblyDone == pc = "cmw_ret" /\ err = "nil"

----------------------------------------------------------------------------
(* Claims *)

\* C2: once every module is merged the map holds, for every declared name,
\* one entry whose version is the greatest version any module declares (never
\* a smaller one); the map is the fold of the module list, and the fold of
\* every other order of the list has the same names and versions, and the
\* same record wherever one module alone declares the greatest version.
C2_HighestVersionWins ==
    MergeDone =>
        /\ dependencies = FoldModules(NoDependencies, modules)
        /\ DOMAIN dependencies = { n \in DepNames : Declared(n) # {} }
        /\ \A n \in DOMAIN dependencies :
              /\ dependencies[n].ModuleName = n
              /\ dependencies[n].Version = Greatest(Declared(n))
        /\ \A o \in Orders(modules) :
              LET d == FoldModules(NoDependencies, o)
              IN  /\ DOMAIN d = DOMAIN dependencies
                  /\ \A n \in DOMAIN d :
                        /\ d[n].Version = dependencies[n].Version
                        /\ Cardinality(Declaring(n, Greatest(Declared(n)))) = 1
                              => d[n] = dependencies[n]

\* two modules declare the same name, the older version second
C2_Witness ==
    /\ MergeDone
    /\ Len(modules) = 2
    /\ \E n \in DepNames : Declaring(n, 2) = {1} /\ Declaring(n, 1) = {2}

\* C3 (as claimed): after a successful assembly every entry of the map is in
\* the workspace exactly once, at src/<name>, holding the winning version.
C3_EveryDependencyPresent ==
    AssemblyDone =>
        \A n \in DOMAIN dependencies :
            /\ Exists(fs, Add(srcRoot, n))
            /\ Child(Add(srcRoot, n), "lib.go") \in DOMAIN fs
            /\ fs[Child(Add(srcRoot, n), "lib.go")] = VersionTag(dependencies[n].Version)
            /\ \A q \in DOMAIN fs :
                  (IsPrefix(srcRoot, q) /\ Len(q) >= Len(n)
                   /\ SubSeq(q, Len(q) - Len(n) + 1, Len(q)) = n) => q = Add(srcRoot, n)

\* C7: after a successful assembly no staged module root src/<module name>
\* has a vendor directory.
C7_NoVendorLeft ==
    AssemblyDone =>
        \A i \in 1..Len(modules) :
            \A q \in DOMAIN fs :
                ~IsPrefix(Child(StagedRoot(modules[i]), "vendor"), q)

\* a successful assembly whose first module vendored something and whose
\* staged root is still there
C7_Witness ==
    /\ AssemblyDone
    /\ modules[1].deps # <<>>
    /\ Exists(fs, StagedRoot(modules[1]))

\* C9 (as claimed): a successful assembly over the workspace a successful
\* assembly left, with the same configuration and sources, leaves the same
\* tree below src.
C9_SameLayoutAgain ==
    (AssemblyDone /\ lastTree.ok) => Tree(fs, srcRoot) = lastTree.tree

\* what a complete extraction of an archive provisions: the content of its
\* single top-level directory, else everything it holds
TopLevel(t) == { r \in DOMAIN t : Len(r) = 1 }

SingleRoot(t) == Cardinality(TopLevel(t)) = 1 /\ \A r \in TopLevel(t) : t[r] = "dir"

Complete(a) ==
    LET t == ArchiveTree(a, Len(a))
    IN  IF SingleRoot(t) THEN Tree(t, CHOOSE r \in TopLevel(t) : TRUE) ELSE t

\* C1: in every state, also after a failed download, listing or rename and
\* after an interruption, a toolchain directory that exists holds the complete
\* extraction of its resource, and everything else below toolchains/ is a
\* ".tmp" staging directory.
C1_CacheInvariant ==
    /\ \A n \in ResourceNames :
          Exists(fs, targetFolder(Resource(n)))
             => Tree(fs, targetFolder(Resource(n))) = Complete(archive[n])
    /\ \A q \in ReadDir(fs, Toolchains) :
          \E n \in ResourceNames :
             q = targetFolder(Resource(n)) \/ q = tmpTargetFolder(Resource(n))

\* killed with one toolchain in place and the next one half extracted
C1_Witness ==
    /\ pc = "killed"
    /\ \E n1, n2 \in ResourceNames :
          /\ Exists(fs, targetFolder(Resource(n1)))
          /\ Exists(fs, tmpTargetFolder(Resource(n2)))
          /\ ~Exists(fs, targetFolder(Resource(n2)))
          /\ \E j \in 1..(Len(archive[n2]) - 1) :
                Tree(fs, tmpTargetFolder(Resource(n2))) = ArchiveTree(archive[n2], j)

\* C4: a resource whose directory exists is skipped: the disk (target and
\* staging directories alike) and the downloads stay as they are and the loop
\* moves on; so no run downloads a resource whose directory was there when
\* the process started.
C4_PresentIsSkipped ==
    /\ [](\A i \in 1..Len(downloaded) : downloaded[i] \notin present0)
    /\ [][(pc = "tc_loop" /\ ri <= Len(resList)
             /\ Exists(fs, targetFolder(resList[ri])))
          => /\ fs' = fs
             /\ downloaded' = downloaded
             /\ (pc' = "killed" \/ (pc' = "tc_loop" /\ ri' = ri + 1))]_vars

\* a second run over the three directories of the first has passed the loop
C4_Witness ==
    /\ run = 2
    /\ present0 = ResourceNames
    /\ snap0 = FreshSnapshot
    /\ pc = "tc_env"
    /\ downloaded = <<>>

\* C10: when the rename succeeds the staging dir holds the whole archive; the
\* toolchain directory then holds the content of the single top-level
\* directory if that is all the archive has, else the content of the staging
\* dir itself.
C10_SingleRootUnwrap ==
    [][(pc = "tc_unpack" /\ pc' = "tc_cleanup")
       => LET res == resList[ri]
              a   == ArchiveTree(archive[res.Name], Len(archive[res.Name]))
              staged == Tree(fs, tmpTargetFolder(res))
          IN  /\ staged = a
              /\ staged # EmptyTree
              /\ Tree(fs', targetFolder(res)) =
                    IF SingleRoot(a)
                    THEN Tree(staged, CHOOSE r \in TopLevel(a) : TRUE)
                    ELSE staged]_vars

\* go came in a single directory and was unwrapped, ndk came flat
C10_Witness ==
    /\ pc = "tc_cleanup"
    /\ resList[ri].Name = "ndk"
    /\ SingleRoot(ArchiveTree(archive["go"], Len(archive["go"])))
    /\ Child(targetFolder(Resource("go")), "bin") \in DOMAIN fs
    /\ ~SingleRoot(ArchiveTree(archive["ndk"], Len(archive["ndk"])))
    /\ Child(targetFolder(Resource("ndk")), "README") \in DOMAIN fs

\* C5: loadResources fetches nothing when the snapshot the process found is
\* younger than 24 hours and exactly once when it is missing or older; after
\* a fetch that was read and written the snapshot holds the fetched content
\* and nothing else, and the catalog then loaded is the one parsed from it.
C5_RefreshPolicy ==
    /\ fetches <= 1
    /\ pc = "lr_ret" =>
          /\ (snap0.exists /\ now - snap0.mtime < 24) => fetches = 0
          /\ (~snap0.exists \/ now - snap0.mtime > 24) => fetches = 1
          /\ (fetches = 1 /\ err \in {"nil", "failed to load resources"})
                => snap = [exists |-> TRUE, content |-> body, mtime |-> now]
          /\ (fetches = 1 /\ err = "nil")
                => catalog = [loaded |-> TRUE, names |-> EntriesOf(body)]
          /\ (fetches = 0 /\ err = "nil")
                => snap = snap0 /\ catalog.names = EntriesOf(snap0.content)

\* the second run finds the first catalog stale and replaces it by another
C5_Witness ==
    /\ pc = "lr_ret"
    /\ err = "nil"
    /\ fetches = 1
    /\ snap0.exists
    /\ snap0.content # body
    /\ snap.content = body

\* C6: with no snapshot on disk and the URL unreachable, NewGoup fails: no
\* snapshot file is left, no catalog is loaded, Build is not entered, nothing
\* is downloaded and no command is run; a process that finds no snapshot
\* always goes on to fetch.
C6_UnreachableLeavesNothing ==
    /\ []((pc = "exit" /\ err = "failed to get resource list" /\ ~snap0.exists)
            => /\ ~snap.exists
               /\ ~catalog.loaded
               /\ fetches = 1
               /\ stages = <<>>
               /\ cmds = <<>>
               /\ downloaded = <<>>
               /\ Present(fs) = present0)
    /\ [][(pc = "lr_stat" /\ ~snap.exists) => pc' = "lr_get"]_vars

\* the second run in a row fails on the unreachable URL, no snapshot before
C6_Witness ==
    /\ run = 2
    /\ pc = "exit"
    /\ err = "failed to get resource list"
    /\ ~snap0.exists
    /\ fetches = 1

StageOrder == << "toolchain", "gomobile", "workspace", "compile" >>

\* the stages entered are a prefix of the pipeline, and a command that
\* failed (those named in ignored apart) is the last command of the process,
\* run in the last stage entered
PipelineHalts(ignored) ==
    /\ stages = SubSeq(StageOrder, 1, Len(stages))
    /\ \A i \in 1..Len(cmds) :
          (~cmds[i].ok /\ cmds[i].name \notin ignored)
             => i = Len(cmds) /\ cmds[i].stage = Len(stages)

\* a stage is entered only with no error pending, one at a time; once a
\* function has returned an error the process enters no stage and runs no
\* command
PipelineSteps ==
    /\ (stages' # stages /\ run' = run)
          => err = "nil" /\ stages' = Append(stages, StageOrder[Len(stages) + 1])
    /\ (err # "nil" /\ run' = run)
          => stages' = stages /\ cmds' = cmds /\ err' = err

C11_PromoteKeepsOthers ==
    /\ [](AssemblyDone =>
            \A i \in 1..Len(modules) : Exists(fs, StagedRoot(modules[i])))
    /\ [][(pc = "cmw_promote" /\ todo' # todo) =>
            /\ \A i \in 1..Len(modules) :
                  Exists(fs, StagedRoot(modules[i]))
                     => Exists(fs', StagedRoot(modules[i]))
            /\ \A n \in DOMAIN dependencies \ todo :
                  Tree(fs', Add(srcRoot, n)) = Tree(fs, Add(srcRoot, n))]_vars

\* the first module, in the order of the configuration, that declares the
\* greatest version of n
FirstDeclaring(n) ==
    LET S == Declaring(n, Greatest(Declared(n)))
    IN  CHOOSE i \in S : \A j \in S : i <= j

\* C12: once every module is merged, the entry of a name is the record of
\* the first module declaring its greatest version, local vendor path
\* included; a step of the merge replaces an entry only by a record of a
\* strictly newer version.
C12_TieKeepsFirst ==
    /\ [](MergeDone =>
            \A n \in DOMAIN dependencies :
               dependencies[n] =
                  [ModuleName |-> n,
                   Version |-> Greatest(Declared(n)),
                   Local |-> Add(Child(StagedRoot(modules[FirstDeclaring(n)]),
                                       "vendor"), n)])
    /\ [][\A n \in DOMAIN dependencies \cap DOMAIN dependencies' :
            dependencies'[n] # dependencies[n]
               => dependencies'[n].Version > dependencies[n].Version]_vars

\* both modules declare the same name at the same, greatest, version
C12_Witness ==
    /\ MergeDone
    /\ Len(modules) = 2
    /\ \E n \in DOMAIN dependencies :
          /\ Declaring(n, Greatest(Declared(n))) = {1, 2}
          /\ dependencies[n].Local =
                Add(Child(StagedRoot(modules[1]), "vendor"), n)

\* C13: a provisioning attempt for a resource whose directory is absent
\* starts with no staging directory (what an earlier run left there is
\* removed before the download); while the archive is unpacked the staging
\* directory holds the entries unpacked by this attempt and nothing else; the
\* directory a successful rename makes, and every toolchain directory, holds
\* nothing of a leftover.
C13_StaleStagingDiscarded ==
    /\ [](pc = "tc_unpack" =>
            Tree(fs, tmpTargetFolder(resList[ri]))
               = ArchiveTree(archive[resList[ri].Name], k))
    /\ [](\A n \in ResourceNames :
            LET t == Tree(fs, targetFolder(Resource(n)))
            IN  \A r \in DOMAIN t : t[r] \in {"dir", n})
    /\ [][(pc = "tc_loop" /\ pc' = "tc_mkdir")
            => ~Exists(fs', tmpTargetFolder(resList[ri]))]_vars
    /\ [][(pc = "tc_unpack" /\ pc' = "tc_cleanup")
            => LET a == archive[resList[ri].Name]
                   t == Tree(fs', targetFolder(resList[ri]))
               IN  \A r \in DOMAIN t :
                      \E i \in 1..Len(a) :
                         /\ a[i].content = t[r]
                         /\ SubSeq(a[i].path, Len(a[i].path) - Len(r) + 1,
                                   Len(a[i].path)) = r]_vars

\* go is in place although its staging directory held a leftover when the
\* process started
C13_Witness ==
    /\ pc = "tc_cleanup"
    /\ resList[ri].Name = "go"
    /\ "go" \in staged0
    /\ Exists(fs, targetFolder(Resource("go")))

\* C14: when the archive is unpacked and the staging directory lists no
\* entry, the step that follows a successful listing returns the error "no
\* files in resource" naming the resource and leaves disk and environment as
\* they are; where provisioning has returned that error the resource has no
\* toolchain directory, the environment is the one the process was launched
\* with and no command has been run.
C14_EmptyExtractionFails ==
    /\ [](\A n \in ResourceNames :
            (pc = "tc_ret" /\ err = "no files in resource: " \o n)
               => /\ ~Exists(fs, targetFolder(Resource(n)))
                  /\ env = InitialEnv
                  /\ cmds = <<>>)
    /\ [][(/\ pc = "tc_unpack"
           /\ k = Len(archive[resList[ri].Name])
           /\ ReadDir(fs, tmpTargetFolder(resList[ri])) = {}
           /\ pc' # "killed"
           /\ err' \notin {"failed to provide resource", "readdir"})
          => /\ pc' = "tc_ret"
             /\ err' = "no files in resource: " \o resList[ri].Name
             /\ fs' = fs
             /\ env' = env]_vars

\* go is in place, the archive of ndk was empty
C14_Witness ==
    /\ pc = "tc_ret"
    /\ err = "no files in resource: ndk"
    /\ archive["ndk"] = <<>>
    /\ Exists(fs, targetFolder(Resource("go")))
    /\ env = InitialEnv

\* the names of the first n resources of the list, in order
ResNames(n) == [i \in 1..n |-> resList[i].Name]

Absent0(n) == n \notin present0

\* C15: where provisioning has returned an error inside the loop, the
\* resources before the failed one have their complete toolchain directory
\* and the failed one has none; a run that gets through the loop has
\* downloaded, in order, exactly the resources whose directory was absent
\* when it started, and at every point of the loop the absent ones among the
\* resources passed.
C15_ResumesFromCache ==
    /\ (pc = "tc_ret" /\ err # "nil" /\ ri <= Len(resList)) =>
          /\ \A j \in 1..(ri - 1) :
                /\ Exists(fs, targetFolder(resList[j]))
                /\ Tree(fs, targetFolder(resList[j]))
                      = Complete(archive[resList[j].Name])
          /\ ~Exists(fs, targetFolder(resList[ri]))
    /\ pc = "tc_env" =>
          /\ downloaded = SelectSeq(ResNames(Len(resList)), Absent0)
          /\ Present(fs) = ResourceNames
    /\ pc = "tc_loop" =>
          downloaded = SelectSeq(ResNames(ri - 1), Absent0)

\* the run before stopped at ndk and left its staging directory; this one
\* found go in place and downloaded ndk and sdk
C15_Witness ==
    /\ run = 2
    /\ pc = "tc_env"
    /\ present0 = {"go"}
    /\ staged0 = {"ndk"}
    /\ downloaded = << "ndk", "sdk" >>

\* C16 (as claimed): where compileGomobile is entered, hasAndroidBuild holds
\* only if the android section is defined and its target selected, and
\* hasIosBuild only if the ios section is defined and its target selected;
\* compileGomobile never reads a section that is absent (never panics).
C16_BuildOnlyWhenDefined ==
    /\ pc = "cg_enter" =>
          /\ hasAndroidBuild =>
                (config.Gomobile /\ config.Android /\ hasTarget("gomobile/android"))
          /\ hasIosBuild =>
                (config.Gomobile /\ config.Ios /\ hasTarget("gomobile/ios"))
    /\ ~(pc = "panic" /\ stages = StageOrder)

\* C17 (as claimed): every "go get" the module resolution runs has goPath as
\* its working directory, at whatever position of the module list the remote
\* specifier stands; none runs inside the staged copy of a module.
C17_GoGetInGoPath ==
    \A i \in 1..Len(cmds) :
        cmds[i].name = "go get"
           => /\ cmds[i].cwd = goPath
              /\ \A j \in 1..Len(modules) : cmds[i].cwd # StagedRoot(modules[j])

ResolutionCommands == {"go get", "go mod vendor"}

CompileCommands == {"gomobile bind android", "gomobile bind ios"}

\* C18: every command of the module resolution was run with GO111MODULE=on
\* and every command of the compile step with GO111MODULE=off, whether
\* prepareGomobile installed gomobile or returned at once; within a process
\* a path variable that is set keeps its value, PATH only grows at its
\* front, and GO111MODULE changes only where a stage sets it.
C18_ModuleModePerStage ==
    /\ [](\A i \in 1..Len(cmds) :
            /\ cmds[i].name \in ResolutionCommands
                  => cmds[i].stage = 3 /\ cmds[i].GO111MODULE = "on"
            /\ cmds[i].name \in CompileCommands
                  => cmds[i].stage = 4 /\ cmds[i].GO111MODULE = "off")
    /\ [][run' = run =>
            /\ \A key \in {"GOROOT", "GOPATH", "ANDROID_NDK_HOME", "NDK_PATH",
                           "ANDROID_HOME"} :
                  env[key] # NoPath => env'[key] = env[key]
            /\ Len(env'.PATH) >= Len(env.PATH)
            /\ SubSeq(env'.PATH, Len(env'.PATH) - Len(env.PATH) + 1,
                      Len(env'.PATH)) = env.PATH
            /\ env'.GO111MODULE # env.GO111MODULE
                  => pc \in {"pg_enter", "cmw_enter", "cg_enter"}]_vars

\* gomobile was installed already: no install command, then a vendoring with
\* modules on and a bind with modules off
C18_Witness ==
    /\ pc = "cg_ret"
    /\ err = "nil"
    /\ \A i \in 1..Len(cmds) : cmds[i].name # "go get gomobile"
    /\ \E i, j \in 1..Len(cmds) :
          /\ cmds[i].name = "go mod vendor"
          /\ cmds[i].GO111MODULE = "on"
          /\ cmds[j].name = "gomobile bind android"
          /\ cmds[j].GO111MODULE = "off"

\* C19: the step that ends the provisioning of a resource leaves its
\* toolchain directory and no staging directory for it, whether a single
\* top-level directory was unwrapped or the staging directory itself was
\* renamed; a run that is through the loop has no staging directory left for
\* any resource it downloaded.
C19_NoStagingAfterSuccess ==
    /\ [](pc = "tc_env" =>
            \A i \in 1..Len(downloaded) :
               ~Exists(fs, tmpTargetFolder(Resource(downloaded[i]))))
    /\ [][(pc = "tc_cleanup" /\ pc' = "tc_loop")
            => /\ Exists(fs', targetFolder(resList[ri]))
               /\ ~Exists(fs', tmpTargetFolder(resList[ri]))]_vars

\* through the loop: go was unwrapped out of its staging directory, the
\* staging directory of ndk was renamed
C19_Witness ==
    /\ pc = "tc_env"
    /\ downloaded = << "go", "ndk", "sdk" >>
    /\ SingleRoot(ArchiveTree(archive["go"], Len(archive["go"])))
    /\ ~SingleRoot(ArchiveTree(archive["ndk"], Len(archive["ndk"])))
    /\ Staged(fs) = {}

====
